---- MODULE Spec2Model ----
(***************************************************************************)
(* Model of SimpleProfiler (profiler.h): the hierarchical timer tree, the  *)
(* cursor-relative name search, the start/stop state machine of a Timer    *)
(* and the depth-limited report.  Two Profiler instances, one bound to an  *)
(* output stream and one silent, are driven by the same calls, as in       *)
(* main.cpp.                                                               *)
(*                                                                         *)
(* Times are fixed-point numbers: the integer v stands for the double      *)
(* v / Scale seconds.  Timers live in an arena: a shared_ptr<Timer> is the *)
(* index of the timer in the sequence `timers`, in creation order, and     *)
(* nullptr is NULL.                                                        *)
(***************************************************************************)
EXTENDS Integers, Sequences, FiniteSets, TLC

\* ------------------------------------------------------------------ bounds
MaxNodes == 3
MaxCalls == 2
MaxTicks == 2
MaxDepth == 1

\* --------------------------------------------------------------- constants
NULL == 0
Scale == 1000000000
CLOCKS_PER_SEC == 1000000
NsPerClock == Scale \div CLOCKS_PER_SEC
PROFILER_MEMORY_PROF == FALSE
DefaultVerbose == 99

Names == {"A", "B", "C"}
Notes == {"", "note"}
StopNames == Names \cup {"Z", "D"}

VARIABLES profiler, profiler_silent, clock, wall, driver, fault

vars == <<profiler, profiler_silent, clock, wall, driver, fault>>

\* ------------------------------------------------------------------- Timer
Timer(tname, tnote) ==
    [ncalls |-> 0, clock_start |-> 0, wt_start |-> 0,
     cpu_time_accu |-> 0, wall_time_accu |-> 0,
     cpu_time_last |-> 0, wall_time_last |-> 0,
     name |-> tname, note |-> tnote,
     parent |-> NULL, prev |-> NULL, next |-> NULL, child |-> NULL]

\* double(ct_end - ct_start) / CLOCKS_PER_SEC, in units of 1 / Scale
cpu_time_from_clocks_diff(ct_start, ct_end) ==
    (ct_end - ct_start) * (Scale \div CLOCKS_PER_SEC)

\* duration_cast<nanoseconds>(wt_end - wt_start).count() * 1e-6
wall_time_from_duration(wt_start, wt_end) ==
    (wt_end - wt_start) * (Scale \div 1000000)

is_on(t) == t.clock_start # 0

TimerStop(t, ct, wt) ==
    IF ~is_on(t) THEN t
    ELSE [t EXCEPT
            !.cpu_time_last = cpu_time_from_clocks_diff(t.clock_start, ct),
            !.cpu_time_accu = @ + cpu_time_from_clocks_diff(t.clock_start, ct),
            !.wall_time_last = wall_time_from_duration(t.wt_start, wt),
            !.wall_time_accu = @ + wall_time_from_duration(t.wt_start, wt),
            !.wt_start = 0,
            !.clock_start = 0]

\* Timer::start without the implicit stop of a running timer
TimerStart_NoStop(t, ct, wt) ==
    [t EXCEPT !.ncalls = @ + 1,
              !.clock_start = ct,
              !.wt_start = wt,
              !.cpu_time_last = 0,
              !.wall_time_last = 0]

\* Timer::start that does not count the call
TimerStart_NoCount(t, ct, wt) ==
    LET s == IF is_on(t) THEN TimerStop(t, ct, wt) ELSE t
    IN  [s EXCEPT !.clock_start = ct,
                  !.wt_start = wt,
                  !.cpu_time_last = 0,
                  !.wall_time_last = 0]

TimerStart(t, ct, wt) ==
    LET s == IF is_on(t) THEN TimerStop(t, ct, wt) ELSE t
    IN  [s EXCEPT !.ncalls = @ + 1,
                  !.clock_start = ct,
                  !.wt_start = wt,
                  !.cpu_time_last = 0,
                  !.wall_time_last = 0]

\* ---------------------------------------------------------------- Profiler
Profiler(os_in) ==
    [p_os |-> os_in, root |-> NULL, current |-> NULL, indent |-> 1,
     timers |-> <<>>]

\* A tree-wide lookup by name in place of the cursor-relative search
search_Global(p, timer, tname) ==
    IF timer = NULL THEN NULL
    ELSE IF \E m \in 1..Len(p.timers) : p.timers[m].name = tname
    THEN CHOOSE m \in 1..Len(p.timers) :
            /\ p.timers[m].name = tname
            /\ \A k \in 1..(m - 1) : p.timers[k].name # tname
    ELSE NULL

RECURSIVE search_timer_in_hierarchy(_, _, _)
search_timer_in_hierarchy(p, timer, tname) ==
    IF timer = NULL THEN NULL
    ELSE IF p.timers[timer].name = tname THEN timer
    ELSE LET found_timer ==
                 IF p.timers[timer].child # NULL
                 THEN search_timer_in_hierarchy(p, p.timers[timer].child, tname)
                 ELSE NULL
         IN  IF found_timer # NULL THEN found_timer
             ELSE IF p.timers[timer].next # NULL
             THEN search_timer_in_hierarchy(p, p.timers[timer].next, tname)
             ELSE NULL

\* The search started at the root in place of the cursor
find_timer_FromRoot(p, tname) ==
    search_timer_in_hierarchy(p, p.root, tname)

find_timer_in_hierarchy(p, tname) ==
    search_timer_in_hierarchy(p, p.current, tname)

RECURSIVE LastSibling(_, _)
LastSibling(p, sibling) ==
    IF p.timers[sibling].next # NULL
    THEN LastSibling(p, p.timers[sibling].next)
    ELSE sibling

\* add that links the new timer into the child chain but sets no parent
add_NoParent(p, tname, tnote) ==
    LET n == Len(p.timers) + 1
        new_timer == Timer(tname, tnote)
    IN  IF p.root = NULL
        THEN [p EXCEPT !.root = n, !.current = n,
                       !.timers = Append(@, new_timer)]
        ELSE IF p.current # NULL
        THEN IF p.timers[p.current].child # NULL
             THEN LET sibling == LastSibling(p, p.timers[p.current].child)
                  IN  [p EXCEPT
                         !.timers = Append([@ EXCEPT ![sibling].next = n],
                                           [new_timer EXCEPT !.prev = sibling]),
                         !.current = n]
             ELSE [p EXCEPT
                     !.timers = Append([@ EXCEPT ![p.current].child = n],
                                       new_timer),
                     !.current = n]
        ELSE [p EXCEPT !.current = n, !.timers = Append(@, new_timer)]

add(p, tname, tnote) ==
    LET n == Len(p.timers) + 1
        new_timer == Timer(tname, tnote)
    IN  IF p.root = NULL
        THEN [p EXCEPT !.root = n, !.current = n,
                       !.timers = Append(@, new_timer)]
        ELSE IF p.current # NULL
        THEN IF p.timers[p.current].child # NULL
             THEN LET sibling == LastSibling(p, p.timers[p.current].child)
                  IN  [p EXCEPT
                         !.timers = Append([@ EXCEPT ![sibling].next = n],
                                           [new_timer EXCEPT !.prev = sibling,
                                                             !.parent = p.current]),
                         !.current = n]
             ELSE [p EXCEPT
                     !.timers = Append([@ EXCEPT ![p.current].child = n],
                                       [new_timer EXCEPT !.parent = p.current]),
                     !.current = n]
        ELSE [p EXCEPT !.current = n, !.timers = Append(@, new_timer)]

start(p, tname, tnote, ct, wt) ==
    LET timer == find_timer_in_hierarchy(p, tname)
        q == IF timer = NULL THEN add(p, tname, tnote)
             ELSE [p EXCEPT !.current = timer]
    IN  [q EXCEPT !.timers[q.current] = TimerStart(@, ct, wt)]

\* stop that closes the cursor whatever name is given
stop_Forced(p, tname, ct, wt) ==
    IF p.current # NULL
    THEN [p EXCEPT !.timers[p.current] = TimerStop(@, ct, wt),
                   !.current = p.timers[p.current].parent]
    ELSE p

\* stop that records the timing only when an output stream is bound
stop_SilentSkips(p, tname, ct, wt) ==
    IF p.current # NULL
    THEN IF p.timers[p.current].name = tname
         THEN [p EXCEPT !.timers[p.current] =
                           IF p.p_os THEN TimerStop(@, ct, wt) ELSE @,
                        !.current = p.timers[p.current].parent]
         ELSE p
    ELSE p

stop(p, tname, ct, wt) ==
    IF p.current # NULL
    THEN IF p.timers[p.current].name = tname
         THEN [p EXCEPT !.timers[p.current] = TimerStop(@, ct, wt),
                        !.current = p.timers[p.current].parent]
         ELSE p
    ELSE p

\* The not-found results: -1.0 and 0.0
get_cpu_time_last(p, tname) ==
    LET timer == find_timer_in_hierarchy(p, tname)
    IN  IF timer # NULL THEN p.timers[timer].cpu_time_last ELSE -Scale

get_wall_time_last(p, tname) ==
    LET timer == find_timer_in_hierarchy(p, tname)
    IN  IF timer # NULL THEN p.timers[timer].wall_time_last ELSE 0

\* ------------------------------------------------------------------ report
\* std::fixed << std::setprecision(4): the value in units of 1e-4, rounded
Fixed4(v) == (v + (Scale \div 20000)) \div (Scale \div 10000)

\* The renderer with the depth test of the children off by one
RECURSIVE get_profile_string_of_timer_Deeper(_, _, _, _)
get_profile_string_of_timer_Deeper(p, timer, level, verbose) ==
    LET t == p.timers[timer]
        self == <<[timer |-> timer, level |-> level]>>
        kids == IF t.child # NULL /\ verbose >= level
                THEN get_profile_string_of_timer_Deeper(p, t.child, level + 1, verbose)
                ELSE <<>>
        sibs == IF t.next # NULL /\ verbose >= level
                THEN get_profile_string_of_timer_Deeper(p, t.next, level, verbose)
                ELSE <<>>
    IN  self \o kids \o sibs

\* The rows of the table in print order, each the timer printed and its level
RECURSIVE get_profile_string_of_timer(_, _, _, _)
get_profile_string_of_timer(p, timer, level, verbose) ==
    LET t == p.timers[timer]
        self == <<[timer |-> timer, level |-> level]>>
        kids == IF t.child # NULL /\ verbose > level
                THEN get_profile_string_of_timer(p, t.child, level + 1, verbose)
                ELSE <<>>
        sibs == IF t.next # NULL /\ verbose >= level
                THEN get_profile_string_of_timer(p, t.next, level, verbose)
                ELSE <<>>
    IN  self \o kids \o sibs

\* The text of one row: label, #calls, CPU time, wall time, and the indent
\* (a number of spaces) put before the label and before both times
RowText(p, row) ==
    LET t == p.timers[row.timer]
    IN  [kind |-> "row",
         indent_s |-> p.indent * row.level,
         note |-> IF t.note = "" THEN t.name ELSE t.note,
         ncalls |-> t.ncalls,
         cputime |-> Fixed4(t.cpu_time_accu),
         walltime |-> Fixed4(t.wall_time_accu)]

banner(c, n) == [kind |-> "banner", c |-> c, n |-> n]

HeaderLine ==
    [kind |-> "header",
     cols |-> <<"Entry", "#calls", "CPU time (s)", "Wall time (s)">>]

\* Defined for a tree with a root; with root = nullptr the call dereferences
\* a null pointer (see Report and Display)
get_profile_string(p, verbose) ==
    LET rows == get_profile_string_of_timer(p, p.root, 0, verbose)
    IN  <<banner("-", 100), HeaderLine, banner("-", 100)>>
        \o [i \in 1..Len(rows) |-> RowText(p, rows[i])]
        \o <<banner("-", 100)>>

\* ------------------------------------------------- side effects of a call
\* What a call does to the outside, in order: writes to *p_os and readings
\* of the clocks (clock() and system_clock::now() of Timer::start/stop)
WriteEv(line) == [e |-> "write", line |-> line]
ClockEv == [e |-> "clock"]

MemSuffix == IF PROFILER_MEMORY_PROF THEN <<"Free memory on node [GB]">> ELSE <<>>

\* start that captures the clocks first and writes its line afterwards
start_io_ClockFirst(p, tname) ==
    LET timer == find_timer_in_hierarchy(p, tname)
        on == timer # NULL /\ is_on(p.timers[timer])
    IN  (IF on THEN <<ClockEv>> ELSE <<>>)
        \o <<ClockEv>>
        \o (IF p.p_os THEN <<WriteEv(<<"Timer start: ", tname>> \o MemSuffix)>>
            ELSE <<>>)

start_io(p, tname) ==
    LET timer == find_timer_in_hierarchy(p, tname)
        on == timer # NULL /\ is_on(p.timers[timer])
    IN  (IF p.p_os THEN <<WriteEv(<<"Timer start: ", tname>> \o MemSuffix)>>
         ELSE <<>>)
        \o (IF on THEN <<ClockEv>> ELSE <<>>)
        \o <<ClockEv>>

stop_io(p, tname) ==
    IF p.current # NULL
    THEN IF p.timers[p.current].name = tname
         THEN (IF is_on(p.timers[p.current]) THEN <<ClockEv>> ELSE <<>>)
              \o (IF p.p_os
                  THEN <<WriteEv(<<"Timer stop:  ", tname>> \o MemSuffix)>>
                  ELSE <<>>)
         ELSE IF p.p_os
              THEN <<WriteEv(<<"Warning: Attempting to stop timer", tname,
                               "but current active timer is",
                               p.timers[p.current].name>>)>>
              ELSE <<>>
    ELSE IF p.p_os
         THEN <<WriteEv(<<"Warning: No timer is currently active">>)>>
         ELSE <<>>

display_io(p, verbose) ==
    IF p.p_os /\ p.root # NULL
    THEN <<WriteEv(get_profile_string(p, verbose))>>
    ELSE <<>>

\* ------------------------------------------------------------ the drivers
Call(op, name, note, d) == [op |-> op, name |-> name, note |-> note, d |-> d]

\* main.cpp (one sequence for both instances), main_mpi.cpp, and the call
\* sequences of the documented properties
Scripts ==
    << <<Call("start", "A", "note", 0), Call("start", "B", "", 0),
         Call("stop", "B", "", 0), Call("start", "C", "", 0),
         Call("stop", "C", "", 0), Call("stop", "A", "", 0),
         Call("indent", "", "", 2),
         Call("display", "", "", DefaultVerbose),
         Call("report", "", "", DefaultVerbose)>>,
       <<Call("start", "A", "", 0), Call("stop", "A", "", 0),
         Call("start", "B", "", 0), Call("stop", "B", "", 0),
         Call("display", "", "", DefaultVerbose),
         Call("report", "", "", DefaultVerbose)>>,
       <<Call("start", "A", "", 0), Call("start", "B", "", 0),
         Call("stop", "B", "", 0), Call("stop", "A", "", 0),
         Call("start", "C", "", 0), Call("start", "A", "", 0)>>,
       <<Call("start", "A", "", 0), Call("stop", "A", "", 0),
         Call("start", "A", "", 0), Call("stop", "A", "", 0)>>,
       <<Call("start", "A", "", 0), Call("start", "A", "", 0),
         Call("stop", "Z", "", 0), Call("stop", "A", "", 0)>>,
       <<Call("start", "A", "", 0), Call("start", "B", "", 0),
         Call("start", "C", "", 0), Call("stop", "C", "", 0),
         Call("stop", "B", "", 0), Call("start", "D", "", 0),
         Call("stop", "D", "", 0), Call("stop", "A", "", 0),
         Call("report", "", "", 1)>>,
       <<Call("start", "A", "", 0), Call("start", "B", "", 0),
         Call("start", "C", "", 0), Call("stop", "C", "", 0),
         Call("stop", "B", "", 0), Call("start", "C", "", 0),
         Call("stop", "C", "", 0), Call("stop", "A", "", 0)>> >>

Free == [mode |-> "free", id |-> 0, pc |-> 0, log |-> <<>>]

\* The free driver makes any start, stop, display or report call, in any
\* order; notes and the indent are set by the scripted drivers
Allowed(c) ==
    IF driver.mode = "free"
    THEN c.op \in {"start", "stop", "display", "report"} /\ c.note = ""
    ELSE /\ driver.pc <= Len(Scripts[driver.id])
         /\ Scripts[driver.id][driver.pc] = c

\* A scripted driver also keeps the clock readings of each call it has made
Advance ==
    IF driver.mode = "free" THEN driver
    ELSE [driver EXCEPT !.pc = @ + 1,
                        !.log = Append(@, [ct |-> clock, wt |-> wall])]

\* ----------------------------------------------------------------- actions
\* Both instances are constructed; clock() counts from an origin of the
\* implementation's choosing and may still read 0 at the first call
Init ==
    /\ profiler = Profiler(TRUE)
    /\ profiler_silent = Profiler(FALSE)
    /\ clock = 0
    /\ wall = 0
    /\ driver \in {Free} \cup
                  {[mode |-> "script", id |-> k, pc |-> 1, log |-> <<>>] :
                      k \in 1..Len(Scripts)}
    /\ fault = FALSE

\* The caller does work: time passes, one tick of the CPU clock at a time
\* and the same span of wall time
Tick ==
    /\ ~fault
    /\ wall < MaxTicks * NsPerClock
    /\ clock' = clock + 1
    /\ wall' = wall + NsPerClock
    /\ UNCHANGED <<profiler, profiler_silent, driver, fault>>

WithinBounds(p, tname) ==
    LET timer == find_timer_in_hierarchy(p, tname)
    IN  driver.mode = "free" =>
           IF timer = NULL THEN Len(p.timers) < MaxNodes
           ELSE p.timers[timer].ncalls < MaxCalls

Start(tname, tnote) ==
    /\ ~fault
    /\ Allowed(Call("start", tname, tnote, 0))
    /\ driver.mode = "free" => tname \in Names
    /\ WithinBounds(profiler, tname)
    /\ profiler' = start(profiler, tname, tnote, clock, wall)
    /\ profiler_silent' = start(profiler_silent, tname, tnote, clock, wall)
    /\ driver' = Advance
    /\ UNCHANGED <<clock, wall, fault>>

Stop(tname) ==
    /\ ~fault
    /\ Allowed(Call("stop", tname, "", 0))
    /\ driver.mode = "free" => tname \in Names \cup {"Z"}
    /\ profiler' = stop(profiler, tname, clock, wall)
    /\ profiler_silent' = stop(profiler_silent, tname, clock, wall)
    /\ driver' = Advance
    /\ UNCHANGED <<clock, wall, fault>>

\* get_profile_string_of_timer(root, ...) reads timer->note: with root =
\* nullptr that is a null dereference, which either ends the process or
\* yields unspecified text
NullRootOutcome(p, reads) ==
    IF reads /\ p.root = NULL THEN {TRUE, FALSE} ELSE {FALSE}

Display(d) ==
    /\ ~fault
    /\ Allowed(Call("display", "", "", d))
    /\ fault' \in NullRootOutcome(profiler, profiler.p_os)
                  \cup NullRootOutcome(profiler_silent, profiler_silent.p_os)
    /\ driver' = Advance
    /\ UNCHANGED <<profiler, profiler_silent, clock, wall>>

\* get_profile_string called by the caller, on either instance
Report(d) ==
    /\ ~fault
    /\ Allowed(Call("report", "", "", d))
    /\ fault' \in NullRootOutcome(profiler, TRUE)
                  \cup NullRootOutcome(profiler_silent, TRUE)
    /\ driver' = Advance
    /\ UNCHANGED <<profiler, profiler_silent, clock, wall>>

\* indent is a public field that callers assign: main.cpp sets it on the
\* silent instance before it asks for the report
SetIndent(i) ==
    /\ ~fault
    /\ Allowed(Call("indent", "", "", i))
    /\ profiler_silent' = [profiler_silent EXCEPT !.indent = i]
    /\ driver' = Advance
    /\ UNCHANGED <<profiler, clock, wall, fault>>

\* The default indent and the one main.cpp sets
IndentValues == {1, 2}

Depths == (0..MaxDepth) \cup {DefaultVerbose}

Next ==
    \/ Tick
    \/ \E tname \in Names \cup {"D"}, tnote \in Notes : Start(tname, tnote)
    \/ \E tname \in StopNames : Stop(tname)
    \/ \E d \in Depths : Display(d)
    \/ \E d \in Depths : Report(d)
    \/ \E i \in IndentValues : SetIndent(i)

Spec == Init /\ [][Next]_vars

\* =============================================================== properties
Instances == {profiler, profiler_silent}

Nodes(p) == 1..Len(p.timers)

\* The calls of a scripted driver made so far
Ran(id, n) == driver.mode = "script" /\ driver.id = id /\ driver.pc = n + 1

\* n and the timers above it, by the parent links
RECURSIVE AncestorsOrSelf(_, _)
AncestorsOrSelf(p, n) ==
    IF n = NULL THEN {}
    ELSE {n} \cup AncestorsOrSelf(p, p.timers[n].parent)

StrictAncestors(p, n) == AncestorsOrSelf(p, n) \ {n}

InTree(p, n) == p.root # NULL /\ p.root \in AncestorsOrSelf(p, n)

Subtree(p, n) == {m \in Nodes(p) : n \in AncestorsOrSelf(p, m)}

RECURSIVE LaterSiblings(_, _)
LaterSiblings(p, n) ==
    IF p.timers[n].next = NULL THEN {}
    ELSE {p.timers[n].next} \cup LaterSiblings(p, p.timers[n].next)

RECURSIVE EarlierSiblings(_, _)
EarlierSiblings(p, n) ==
    IF p.timers[n].prev = NULL THEN {}
    ELSE {p.timers[n].prev} \cup EarlierSiblings(p, p.timers[n].prev)

\* Where the cursor-relative search may find a timer: the cursor, its
\* subtree, its later siblings and their subtrees
Scope(p) ==
    IF p.current = NULL THEN {}
    ELSE Subtree(p, p.current)
         \cup UNION {Subtree(p, m) : m \in LaterSiblings(p, p.current)}

Rows(p, d) ==
    IF p.root = NULL THEN <<>> ELSE get_profile_string_of_timer(p, p.root, 0, d)

RowsOfTimer(p, d, n) == {i \in 1..Len(Rows(p, d)) : Rows(p, d)[i].timer = n}

C2_RoundTrip ==
    Ran(4, 4) =>
       LET r == driver.log
           named == {n \in Nodes(profiler) : profiler.timers[n].name = "A"}
       IN  /\ Cardinality(named) = 1
           /\ \A n \in named :
                 /\ profiler.timers[n].ncalls = 2
                 /\ profiler.timers[n].cpu_time_accu
                       = cpu_time_from_clocks_diff(r[1].ct, r[2].ct)
                         + cpu_time_from_clocks_diff(r[3].ct, r[4].ct)
                 /\ profiler.timers[n].wall_time_accu
                       = wall_time_from_duration(r[1].wt, r[2].wt)
                         + wall_time_from_duration(r[3].wt, r[4].wt)

\* ------------------------------------------------------------------- C3
\* C3: in every reachable state and for every name, the timer start(name)
\* re-enters lies in the scope of the cursor (the cursor, its subtree, its
\* later siblings and their subtrees) and is never a strict ancestor or an
\* earlier sibling of the cursor; when the scope holds no timer of that name
\* start creates a new node, whatever timers of that name exist elsewhere;
\* and after start(A), start(B), stop(B), stop(A), start(C) on a fresh
\* instance, start(A) creates a second node named A.
C3_ScopedReentry ==
    /\ \A P \in Instances : \A name \in Names :
          LET timer == find_timer_in_hierarchy(P, name)
              p1 == start(P, name, "", clock, wall)
          IN  /\ timer # NULL =>
                    /\ timer \in Scope(P)
                    /\ P.timers[timer].name = name
                    /\ timer \notin StrictAncestors(P, P.current)
                    /\ timer \notin EarlierSiblings(P, P.current)
                    /\ p1.current = timer
                    /\ Len(p1.timers) = Len(P.timers)
              /\ (\A m \in Scope(P) : P.timers[m].name # name) =>
                    /\ timer = NULL
                    /\ Len(p1.timers) = Len(P.timers) + 1
                    /\ p1.current = Len(p1.timers)
                    /\ p1.timers[p1.current].name = name
    /\ Ran(3, 6) =>
          /\ Len(profiler.timers) = 4
          /\ profiler.timers[1].name = "A"
          /\ profiler.timers[4].name = "A"
          /\ profiler.current = 4
          /\ profiler.timers[4].ncalls = 1
          /\ profiler.timers[1].ncalls = 1

\* The six calls were made: the cursor is a second node named A, below C
C3_Witness ==
    /\ Ran(3, 6)
    /\ profiler.current = 4
    /\ profiler.timers[4].name = "A"
    /\ profiler.timers[4].parent = 3
    /\ profiler.timers[3].name = "C"

\* ------------------------------------------------------------------- C4
\* C4: in every reachable state whose cursor is a running timer X (is_on),
\* start(X) creates no node and leaves the cursor on X; it adds the CPU and
\* wall time measured since the interval began to the totals, raises the
\* call count by exactly one, zeroes the last-call values and leaves X
\* running; two starts in a row on a fresh instance give a call count of 2.
C4_ImplicitRestart ==
    /\ \A P \in Instances :
          (P.current # NULL /\ is_on(P.timers[P.current])) =>
             LET x == P.timers[P.current]
                 p1 == start(P, x.name, "", clock, wall)
                 y == p1.timers[p1.current]
             IN  /\ p1.current = P.current
                 /\ Len(p1.timers) = Len(P.timers)
                 /\ y.ncalls = x.ncalls + 1
                 /\ y.cpu_time_accu = x.cpu_time_accu
                       + cpu_time_from_clocks_diff(x.clock_start, clock)
                 /\ y.wall_time_accu = x.wall_time_accu
                       + wall_time_from_duration(x.wt_start, wall)
                 /\ y.cpu_time_last = 0
                 /\ y.wall_time_last = 0
                 /\ is_on(y)
                 /\ \A m \in Nodes(P) : m # P.current => p1.timers[m] = P.timers[m]
    /\ Ran(5, 2) => /\ Len(profiler.timers) = 1
                    /\ profiler.current = 1
                    /\ profiler.timers[1].ncalls = 2

\* start(A) was called twice in a row, the second call closing an interval
\* of non-zero length
C4_Witness ==
    /\ Ran(5, 2)
    /\ profiler.timers[1].ncalls = 2
    /\ profiler.timers[1].cpu_time_accu > 0
    /\ profiler.timers[1].wall_time_accu > 0
    /\ is_on(profiler.timers[1])

\* ------------------------------------------------------------------- C5
\* C5: in every reachable state, stop(name) called with no cursor or with a
\* cursor of another name leaves the instance as it is: cursor, links, call
\* counts, totals, last-call values and running intervals.
C5_MismatchedStop ==
    \A P \in Instances : \A name \in StopNames :
        (P.current = NULL \/ P.timers[P.current].name # name) =>
           stop(P, name, clock, wall) = P

\* stop(Z) was called while A was running: A still is, with its count
C5_Witness ==
    /\ Ran(5, 3)
    /\ profiler.current = 1
    /\ is_on(profiler.timers[1])
    /\ profiler.timers[1].ncalls = 2
    /\ wall > profiler.timers[1].wt_start

\* ------------------------------------------------------------------- C6
Depth(p, n) == Cardinality(StrictAncestors(p, n))

ChildrenOf(p, n) == {m \in Nodes(p) : p.timers[m].parent = n}

\* The members of a set of timers in creation order
RECURSIVE InOrder(_)
InOrder(S) ==
    IF S = {} THEN <<>>
    ELSE LET m == CHOOSE x \in S : \A y \in S : x <= y
         IN  <<m>> \o InOrder(S \ {m})

RECURSIVE Flatten(_)
Flatten(ss) == IF ss = <<>> THEN <<>> ELSE Head(ss) \o Flatten(Tail(ss))

\* Pre-order by the parent links: the node, then, down to depth d, each of
\* its children in creation order with all that is below it
RECURSIVE PreOrder(_, _, _, _)
PreOrder(p, n, level, d) ==
    <<[timer |-> n, level |-> level]>>
    \o (IF level < d
        THEN LET kids == InOrder(ChildrenOf(p, n))
             IN  Flatten([i \in 1..Len(kids) |->
                             PreOrder(p, kids[i], level + 1, d)])
        ELSE <<>>)

ReportDepths == (0..(MaxDepth + 1)) \cup {DefaultVerbose}

\* C6: in every reachable state with a tree (a root) and for every maximum
\* depth d >= 0, the report has exactly one row for each node reachable from
\* the root at depth <= d and none for a deeper or an unreachable node, in
\* pre-order with children in creation order, each row at the level of its
\* node; no sibling at a shown depth is left out.
C6_DepthLimited ==
    \A P \in Instances : \A d \in ReportDepths :
        P.root # NULL =>
           LET rows == Rows(P, d)
               shown == {n \in Nodes(P) : InTree(P, n) /\ Depth(P, n) <= d}
               text == get_profile_string(P, d)
           IN  /\ rows = PreOrder(P, P.root, 0, d)
               /\ {rows[i].timer : i \in 1..Len(rows)} = shown
               /\ Len(rows) = Cardinality(shown)
               /\ \A i \in 1..Len(rows) : rows[i].level = Depth(P, rows[i].timer)
               /\ Len(text) = Len(rows) + 4
               /\ \A i \in 1..Len(rows) : text[i + 3] = RowText(P, rows[i])

\* A tree three levels deep, A over B and D, C below B, reported with a
\* maximum depth of 1: rows for A, B and D, none for C
C6_Witness ==
    /\ Ran(6, 9)
    /\ Len(profiler.timers) = 4
    /\ profiler.timers[3].parent = 2
    /\ profiler.timers[4].parent = 1
    /\ Rows(profiler, 1) = <<[timer |-> 1, level |-> 0],
                             [timer |-> 2, level |-> 1],
                             [timer |-> 4, level |-> 1]>>
    /\ Len(Rows(profiler, DefaultVerbose)) = 4

\* ------------------------------------------------------------------- C7
Writes(events) == SelectSeq(events, LAMBDA ev : ev.e = "write")

\* C7: in every reachable state the silent instance has the tree, the cursor
\* and the statistics of the verbose one, which was driven by the same calls
\* and clock readings; with the same indent both return the same report text
\* for every depth; and no start, stop or display call on the silent
\* instance writes to a sink.
C7_SilentVerbose ==
    /\ profiler.p_os /\ ~profiler_silent.p_os
    /\ profiler_silent.root = profiler.root
    /\ profiler_silent.current = profiler.current
    /\ profiler_silent.timers = profiler.timers
    /\ profiler.root # NULL =>
          \A d \in ReportDepths :
             get_profile_string([profiler_silent EXCEPT !.indent = profiler.indent], d)
                = get_profile_string(profiler, d)
    /\ \A name \in StopNames :
          /\ Writes(start_io(profiler_silent, name)) = <<>>
          /\ Writes(stop_io(profiler_silent, name)) = <<>>
          /\ Writes(start_io(profiler, name)) # <<>>
          /\ Writes(stop_io(profiler, name)) # <<>>
    /\ \A d \in ReportDepths : Writes(display_io(profiler_silent, d)) = <<>>

\* Both instances went through main.cpp's calls, with time passing inside
\* the regions: the verbose display writes the table, the silent one nothing
C7_Witness ==
    /\ Ran(1, 9)
    /\ Len(profiler_silent.timers) = 3
    /\ profiler_silent.timers[1].wall_time_accu > 0
    /\ profiler_silent.timers[2].cpu_time_accu > 0
    /\ Writes(display_io(profiler, DefaultVerbose)) # <<>>
    /\ display_io(profiler_silent, DefaultVerbose) = <<>>

\* ------------------------------------------------------------------- C8
\* C8 as stated: in every state in which the cursor-relative search finds no
\* timer named name, get_cpu_time_last(name) and get_wall_time_last(name)
\* return the same value, and no existing timer has that value as a
\* last-call duration.
C8_Sentinel ==
    \A P \in Instances : \A name \in Names :
        find_timer_in_hierarchy(P, name) = NULL =>
           /\ get_cpu_time_last(P, name) = get_wall_time_last(P, name)
           /\ \A n \in Nodes(P) :
                 /\ P.timers[n].cpu_time_last # get_cpu_time_last(P, name)
                 /\ P.timers[n].wall_time_last # get_wall_time_last(P, name)

\* ------------------------------------------------------------------- C9
\* C9 as stated: no sequence of start and stop calls makes start create a
\* node that is left unattached: every node created so far is the root or
\* is reachable from the root by the parent links.
C9_NoUnattachedNode ==
    \A P \in Instances : \A n \in Nodes(P) : InTree(P, n)

\* ------------------------------------------------------------------ C10
RECURSIVE Chain(_, _)
Chain(p, n) == IF n = NULL THEN <<>> ELSE <<n>> \o Chain(p, p.timers[n].next)

\* C10 as stated: in every state reachable by start and stop calls, every
\* node other than the root has one parent and is exactly once in that
\* parent's child chain, and the prev and next links of the chain agree.
C10_TreeShape ==
    \A P \in Instances : \A n \in Nodes(P) :
        /\ n # P.root =>
              /\ P.timers[n].parent # NULL
              /\ LET c == Chain(P, P.timers[P.timers[n].parent].child)
                 IN  Cardinality({i \in 1..Len(c) : c[i] = n}) = 1
        /\ P.timers[n].next # NULL => P.timers[P.timers[n].next].prev = n
        /\ P.timers[n].prev # NULL => P.timers[P.timers[n].prev].next = n
        /\ P.timers[n].child # NULL =>
              /\ P.timers[P.timers[n].child].prev = NULL
              /\ \A i \in 1..Len(Chain(P, P.timers[n].child)) :
                    P.timers[Chain(P, P.timers[n].child)[i]].parent = n

\* ------------------------------------------------------------------ C11
\* An elapsed wall span of wt_end - wt_start nanoseconds, in seconds
ElapsedSeconds(wt_start, wt_end) ==
    (wt_end - wt_start) * (Scale \div 1000000000)

\* C11 as stated: in every reachable state whose cursor is running, the
\* matching stop stores as cpu_time_last the elapsed clocks / CLOCKS_PER_SEC
\* and as wall_time_last the elapsed nanoseconds / 10^9, both in seconds, and
\* adds the same values to the totals.
C11_WallInSeconds ==
    \A P \in Instances :
        (P.current # NULL /\ is_on(P.timers[P.current])) =>
           LET c == P.current
               x == P.timers[c]
               y == stop(P, x.name, clock, wall).timers[c]
           IN  /\ y.cpu_time_last
                     = (clock - x.clock_start) * (Scale \div CLOCKS_PER_SEC)
               /\ y.cpu_time_accu = x.cpu_time_accu + y.cpu_time_last
               /\ y.wall_time_last = ElapsedSeconds(x.wt_start, wall)
               /\ y.wall_time_accu = x.wall_time_accu
                                        + ElapsedSeconds(x.wt_start, wall)

\* ------------------------------------------------------------------ C12
\* C12: in every reachable state and for every name, what a start call on
\* the verbose instance does to the outside begins with the "Timer start"
\* line and every clock reading comes after it, the last being the capture
\* for the new interval (preceded by one more reading exactly when start
\* closes a running interval of the timer it re-enters); what a matching
\* stop call does ends with the "Timer stop" line and every clock reading
\* comes before it, and when the cursor is running there is exactly one,
\* whose interval is in the totals of the state the call returns.
C12_LogClockOrder ==
    \A name \in StopNames :
        LET s == start_io(profiler, name)
            t == stop_io(profiler, name)
            timer == find_timer_in_hierarchy(profiler, name)
            c == profiler.current
        IN  /\ Len(s) >= 2
            /\ s[1] = WriteEv(<<"Timer start: ", name>> \o MemSuffix)
            /\ \A i \in 2..Len(s) : s[i] = ClockEv
            /\ Len(s) = 3 <=> (timer # NULL /\ is_on(profiler.timers[timer]))
            /\ (c # NULL /\ profiler.timers[c].name = name) =>
                  /\ Len(t) >= 1
                  /\ t[Len(t)] = WriteEv(<<"Timer stop:  ", name>> \o MemSuffix)
                  /\ \A i \in 1..(Len(t) - 1) : t[i] = ClockEv
                  /\ is_on(profiler.timers[c]) =>
                        /\ t = <<ClockEv, t[Len(t)]>>
                        /\ stop(profiler, name, clock, wall).timers[c].cpu_time_accu
                              = profiler.timers[c].cpu_time_accu
                                + cpu_time_from_clocks_diff(
                                     profiler.timers[c].clock_start, clock)

\* main.cpp's start A, start B, stop B were made with time passing inside B:
\* B's interval is in its totals, and the cursor A is running, so that the
\* next start and the next matching stop each read the clock
C12_Witness ==
    /\ Ran(1, 3)
    /\ profiler.timers[2].cpu_time_accu > 0
    /\ profiler.current = 1
    /\ is_on(profiler.timers[1])
    /\ start_io(profiler, "C") = <<WriteEv(<<"Timer start: ", "C">>), ClockEv>>
    /\ stop_io(profiler, "A") = <<ClockEv, WriteEv(<<"Timer stop:  ", "A">>)>>

\* ------------------------------------------------------------------ C13
\* C13: in every reachable state every running node has a call count of at
\* least 1, and for every name the node a start call has just started has a
\* call count of at least 1 when the call returns.
C13_ActiveHasCalls ==
    \A P \in Instances :
        /\ \A n \in Nodes(P) : is_on(P.timers[n]) => P.timers[n].ncalls >= 1
        /\ \A name \in Names :
              LET p1 == start(P, name, "", clock, wall)
              IN  p1.timers[p1.current].ncalls >= 1

\* main.cpp's start A, start B were made: both nodes are running, each
\* counted once
C13_Witness ==
    /\ Ran(1, 2)
    /\ is_on(profiler.timers[1]) /\ profiler.timers[1].ncalls = 1
    /\ is_on(profiler.timers[2]) /\ profiler.timers[2].ncalls = 1

\* ------------------------------------------------------------------ C14
\* The reference order of the search, by the parent links: the cursor and
\* all that is below it in pre-order, children in creation order, then each
\* later child of the cursor's parent in creation order with all below it
RefOrder(p) ==
    IF p.current = NULL THEN <<>>
    ELSE LET up == p.timers[p.current].parent
             later == IF up = NULL THEN <<>>
                      ELSE InOrder({m \in ChildrenOf(p, up) : m > p.current})
             rows == PreOrder(p, p.current, 0, DefaultVerbose)
                     \o Flatten([i \in 1..Len(later) |->
                                    PreOrder(p, later[i], 0, DefaultVerbose)])
         IN  [i \in 1..Len(rows) |-> rows[i].timer]

RefFind(p, tname) ==
    LET order == RefOrder(p)
        hits == {i \in 1..Len(order) : p.timers[order[i]].name = tname}
    IN  IF hits = {} THEN NULL
        ELSE order[CHOOSE i \in hits : \A j \in hits : i <= j]

\* C14: in every reachable state and for every name, find(name) returns the
\* first node of that name in the reference order (the cursor, its subtree
\* depth-first, then its later siblings and their subtrees), and not-found
\* when there is none or when the cursor is null; the root is in that order
\* only when it is the cursor.
C14_FindIsPreOrder ==
    \A P \in Instances :
        /\ \A name \in StopNames :
              /\ find_timer_in_hierarchy(P, name) = RefFind(P, name)
              /\ P.current = NULL => find_timer_in_hierarchy(P, name) = NULL
        /\ \A i \in 1..Len(RefOrder(P)) :
              RefOrder(P)[i] = P.root => P.root = P.current

\* The cursor is the second node, a child of the root with a later sibling:
\* the sibling's name is found on the sibling, the root's name is not found
C14_Witness ==
    /\ profiler.root = 1
    /\ profiler.current = 2
    /\ profiler.timers[2].parent = 1
    /\ profiler.timers[2].next = 3
    /\ profiler.timers[3].name # profiler.timers[1].name
    /\ find_timer_in_hierarchy(profiler, profiler.timers[3].name) = 3
    /\ find_timer_in_hierarchy(profiler, profiler.timers[1].name) = NULL

\* ------------------------------------------------------------------ C15
\* C15 as stated: in every reachable state, no two nodes with the same
\* parent (two children of one node, or two nodes that both have none) have
\* the same name, and no node has the name of its parent.
C15_SiblingNames ==
    \A P \in Instances : \A n \in Nodes(P) :
        /\ P.timers[n].parent # NULL =>
              P.timers[n].name # P.timers[P.timers[n].parent].name
        /\ \A m \in Nodes(P) :
              (m # n /\ P.timers[m].parent = P.timers[n].parent) =>
                 P.timers[m].name # P.timers[n].name

\* ------------------------------------------------------------------ C16
\* No call of the scripted driver read a CPU clock of 0
NoZeroReading ==
    /\ driver.mode = "script"
    /\ \A i \in 1..Len(driver.log) : driver.log[i].ct # 0

\* C16 as stated, on the call sequences of the scripted drivers whose calls
\* all read a non-zero clock: in every state in which the cursor is not
\* null the cursor node is running, so that the matching stop closes an
\* interval of it.
C16_CursorIsActive ==
    NoZeroReading =>
       \A P \in Instances :
           P.current # NULL =>
              /\ is_on(P.timers[P.current])
              /\ stop(P, P.timers[P.current].name, clock, wall).timers[P.current]
                    # P.timers[P.current]

\* ------------------------------------------------------------------ C17
\* C17 as stated, for the names of regions other than the one the cursor is
\* on: from every reachable state, start(name) immediately followed by
\* stop(name) leaves the cursor on the node (or the null) it was on before,
\* and then the region that was open before can be closed by its own stop.
C17_BalancedRestores ==
    \A P \in Instances : \A name \in Names :
        (P.current = NULL \/ P.timers[P.current].name # name) =>
           LET p1 == start(P, name, "", clock, wall)
               p2 == stop(p1, name, clock, wall)
           IN  /\ p2.current = P.current
               /\ P.current # NULL =>
                     stop(p2, P.timers[P.current].name, clock, wall).current
                        = P.timers[P.current].parent

\* ------------------------------------------------------------------ C18
\* C18 as stated: in every reachable state, fresh instances included, the
\* report and display calls made so far have all completed without fault.
C18_ReportNeverFaults == fault = FALSE

\* ------------------------------------------------------------------ C19
\* C19 as stated, for a start that reads a non-zero clock: from every
\* reachable state and for every name, after start(name), one tick of work
\* and the stop(name) that closes the node start entered, the two queries
\* for name return the last-call durations just recorded on that node, the
\* CPU one being the duration measured.
C19_QueryAfterStop ==
    clock # 0 =>
       \A P \in Instances : \A name \in Names :
           LET p1 == start(P, name, "", clock, wall)
               c == p1.current
               p2 == stop(p1, name, clock + 1, wall + NsPerClock)
           IN  /\ get_cpu_time_last(p2, name)
                     = cpu_time_from_clocks_diff(clock, clock + 1)
               /\ get_cpu_time_last(p2, name) = p2.timers[c].cpu_time_last
               /\ get_wall_time_last(p2, name) = p2.timers[c].wall_time_last

\* ------------------------------------------------------------------ C20
\* The last call of the scripted driver
LastCall == Scripts[driver.id][driver.pc - 1]

\* C20 as stated, on the call sequences of the scripted drivers: in every
\* state a start call has just returned to, the cursor node is running,
\* whatever the CPU clock read at that moment; and in every state a stop
\* call has just closed a called node in, the node has one accumulated
\* interval, the wall time between the two calls.
C20_BeginOpensInterval ==
    (driver.mode = "script" /\ driver.pc > 1) =>
       /\ LastCall.op = "start" =>
             \A P \in Instances : is_on(P.timers[P.current])
       /\ Ran(4, 2) =>
             \A P \in Instances :
                 P.timers[1].wall_time_accu
                    = wall_time_from_duration(driver.log[1].wt, driver.log[2].wt)

====
